---------------------------- MODULE Spec2Model ----------------------------
(***************************************************************************)
(* A model of mpdspl.py (smart playlists out of an MPD database): the rule *)
(* grammar, the four rule kinds, playlist evaluation and the cache         *)
(* lifecycle of a run.                                                     *)
(*                                                                         *)
(* Strings are sequences of one-character strings.  A Python call either   *)
(* returns a value, [ok |-> TRUE, val |-> v], or raises,                   *)
(* [ok |-> FALSE, err |-> "<exception class>"].                            *)
(***************************************************************************)
EXTENDS Integers, Sequences, FiniteSets, TLC

VARIABLES
    \* ---- one rule against one track (SpecRule)
    ruleString,     \* the rule text handed to RuleFactory.getRule
    rule,           \* the outcome of RuleFactory.getRule(ruleString)
    track,          \* the track the rule is matched against
    matched,        \* the outcome of rule.match(track)
    rpc,            \* "parse" -> "match" -> "done"
    \* ---- playlists evaluated on a database (SpecPlaylist)
    ruleset1,       \* the text of ruleset R1
    ruleset2,       \* the text of ruleset R2
    db,             \* MpdDB.getTracks(): the tracks in iteration order
    playlists,      \* name -> the outcome of Playlist(name, text)
    found,          \* name -> the outcome of playlist.findMatchingTracks(db)
    ppc,            \* "new" -> "find" -> "done"
    \* ---- runs of the program on its files (SpecRun)
    source,         \* the version of the MPD database and ratings
    cacheFile,      \* MpdDB.CACHE_FILE: whether it exists, the MpdDB it holds
    dataDir,        \* Playlist.CACHE_DIR: whether it exists, name -> Playlist
    playlistDir,    \* Playlist.PLAYLIST_DIR: name -> text of name.m3u
    args,           \* what parseArgs returned: forceUpdate, dataDir
    playlistSet,    \* the run's dictionary name -> Playlist
    mpdDB,          \* the run's MpdDB
    todo,           \* the playlists the loop of the run has yet to visit
    mpc,            \* "idle" -> "db" -> "marshal" -> "evaluate" -> "exited"
    exit,           \* how the run ended: "0", "2", or the uncaught exception
    \* ---- the environment of the process
    tz,             \* local time zone: local wall clock = UTC + tz (seconds)
    now,            \* the UTC instant (epoch seconds) of datetime.now()
    \* ---- a playlist synchronised to an iPod (SpecIpod)
    ipodDB,         \* iPod.db: the Master playlist and the other playlists
    syncArgs,       \* the arguments of sync_playlist: name, tracks
    syncResult      \* what sync_playlist returned or raised

ruleVars == <<ruleString, rule, track, matched, rpc>>
playlistVars == <<ruleset1, ruleset2, db, playlists, found, ppc>>
fileVars == <<source, cacheFile, dataDir, playlistDir>>
procVars == <<args, playlistSet, mpdDB, todo, mpc, exit>>
runVars == <<fileVars, procVars>>
envVars == <<tz, now>>
ipodVars == <<ipodDB, syncArgs, syncResult>>
vars == <<ruleVars, playlistVars, runVars, envVars, ipodVars>>

-----------------------------------------------------------------------------
(* Characters *)

LowerCase == <<"a","b","c","d","e","f","g","h","i","j","k","l","m","n","o","p","q","r","s","t","u","v","w","x","y","z">>
UpperCase == <<"A","B","C","D","E","F","G","H","I","J","K","L","M","N","O","P","Q","R","S","T","U","V","W","X","Y","Z">>
DigitChars == <<"0","1","2","3","4","5","6","7","8","9">>

Range(f) == { f[i] : i \in DOMAIN f }
Letters == Range(LowerCase) \cup Range(UpperCase)
Digits == Range(DigitChars)

\* \w of the re module
IsWord(c) == c \in Letters \cup Digits \cup {"_"}
\* \s of the re module
IsSpace(c) == c = " "

\* str.lower() on one character, then on a string
LowerChar(c) ==
    IF c \in Range(UpperCase)
    THEN LowerCase[CHOOSE i \in DOMAIN UpperCase : UpperCase[i] = c]
    ELSE c
Lower(s) == [ i \in DOMAIN s |-> LowerChar(s[i]) ]

DigitVal(c) == (CHOOSE i \in DOMAIN DigitChars : DigitChars[i] = c) - 1

RECURSIVE ParseDigits(_)
\* the number a non-empty string of decimal digits denotes
ParseDigits(s) ==
    IF s = <<>> THEN 0
    ELSE 10 * ParseDigits(SubSeq(s, 1, Len(s) - 1)) + DigitVal(s[Len(s)])

RECURSIVE FormatDigits(_, _)
\* "%0<w>d" % n
FormatDigits(n, w) ==
    IF w <= 1 /\ n < 10 THEN <<DigitChars[n + 1]>>
    ELSE FormatDigits(n \div 10, w - 1) \o <<DigitChars[(n % 10) + 1]>>

RECURSIVE DigitRun(_, _)
\* length of the run of digits of s that starts at index i
DigitRun(s, i) ==
    IF i <= Len(s) /\ s[i] \in Digits THEN 1 + DigitRun(s, i + 1) ELSE 0

RECURSIVE WordRun(_, _)
\* length of the run of word characters of s that starts at index i
WordRun(s, i) ==
    IF i <= Len(s) /\ IsWord(s[i]) THEN 1 + WordRun(s, i + 1) ELSE 0

Max(S) == CHOOSE x \in S : \A y \in S : y <= x
Min(S) == CHOOSE x \in S : \A y \in S : x <= y

Ok(v) == [ok |-> TRUE, val |-> v]
Raise(e) == [ok |-> FALSE, err |-> e]

-----------------------------------------------------------------------------
(* Calendar and clock: what time.gmtime, time.strftime, time.strptime,     *)
(* time.mktime and the datetime module compute.                            *)

SecondsPerDay == 86400

\* days since 1970-01-01 of the civil date y-m-d (proleptic Gregorian)
DaysFromCivil(y, m, d) ==
    LET yy  == IF m <= 2 THEN y - 1 ELSE y
        era == yy \div 400
        yoe == yy - era * 400
        mp  == IF m > 2 THEN m - 3 ELSE m + 9
        doy == (153 * mp + 2) \div 5 + d - 1
        doe == yoe * 365 + yoe \div 4 - yoe \div 100 + doy
    IN era * 146097 + doe - 719468

\* the civil date <<y, m, d>> of a day number
CivilFromDays(z) ==
    LET zz  == z + 719468
        era == zz \div 146097
        doe == zz - era * 146097
        yoe == (doe - doe \div 1460 + doe \div 36524 - doe \div 146096) \div 365
        doy == doe - (365 * yoe + yoe \div 4 - yoe \div 100)
        mp  == (5 * doy + 2) \div 153
        d   == doy - (153 * mp + 2) \div 5 + 1
        m   == IF mp < 10 THEN mp + 3 ELSE mp - 9
        y   == yoe + era * 400
    IN <<IF m <= 2 THEN y + 1 ELSE y, m, d>>

IsLeap(y) == (y % 4 = 0 /\ y % 100 # 0) \/ y % 400 = 0
DaysInMonth(y, m) ==
    IF m = 2 THEN (IF IsLeap(y) THEN 29 ELSE 28)
    ELSE IF m \in {4, 6, 9, 11} THEN 30 ELSE 31

RECURSIVE ScanFields(_, _, _)
\* Reads s from index i as digit runs separated by the characters of seps,
\* to the end of s: the sequence of [n |-> number, w |-> digits read], or
\* <<>> when s does not have that shape.
ScanFields(s, i, seps) ==
    LET w == DigitRun(s, i)
        f == [n |-> ParseDigits(SubSeq(s, i, i + w - 1)), w |-> w]
        j == i + w
    IN  IF w = 0 THEN <<>>
        ELSE IF seps = <<>> THEN (IF j = Len(s) + 1 THEN <<f>> ELSE <<>>)
        ELSE IF j <= Len(s) /\ s[j] = Head(seps)
             THEN LET rest == ScanFields(s, j + 1, Tail(seps))
                  IN IF rest = <<>> THEN <<>> ELSE <<f>> \o rest
             ELSE <<>>

ValidDate(f) ==
    /\ f[1].w = 4
    /\ f[2].w <= 2 /\ f[2].n \in 1..12
    /\ f[3].w <= 2 /\ f[3].n >= 1 /\ f[3].n <= DaysInMonth(f[1].n, f[2].n)

\* the civil date of the fields of a date, or ValueError
DateOfFields(f) ==
    IF f # <<>> /\ ValidDate(f)
    THEN Ok(<<f[1].n, f[2].n, f[3].n>>)
    ELSE Raise("ValueError")

\* time.strptime(s, '%Y-%m-%d'): the civil date, or ValueError
StrptimeDate(s) == DateOfFields(ScanFields(s, 1, <<"-", "-">>))

\* time.strftime('%Y-%m-%d', tm)
StrftimeDate(ymd) ==
    FormatDigits(ymd[1], 4) \o <<"-">> \o FormatDigits(ymd[2], 2)
        \o <<"-">> \o FormatDigits(ymd[3], 2)

\* time.gmtime(t), to the precision the format keeps: the UTC civil date
Gmtime(t) == CivilFromDays(t \div SecondsPerDay)

\* time.mktime(tm) of a date at 00:00:00 local time: epoch seconds
Mktime(ymd, zone) == DaysFromCivil(ymd[1], ymd[2], ymd[3]) * SecondsPerDay - zone

\* the naive datetime of the fields of '%Y-%m-%dT%H:%M:%S', as the seconds
\* from 1970-01-01T00:00:00 on its own wall clock, or ValueError
DatetimeOfFields(f) ==
    IF /\ f # <<>> /\ ValidDate(f)
       /\ f[4].w <= 2 /\ f[4].n <= 23
       /\ f[5].w <= 2 /\ f[5].n <= 59
       /\ f[6].w <= 2 /\ f[6].n <= 61
    THEN Ok(DaysFromCivil(f[1].n, f[2].n, f[3].n) * SecondsPerDay
              + f[4].n * 3600 + f[5].n * 60 + f[6].n)
    ELSE Raise("ValueError")

\* datetime.datetime.strptime(s, '%Y-%m-%dT%H:%M:%SZ'): a naive datetime
StrptimeIso(s) ==
    IF Len(s) >= 1 /\ s[Len(s)] = "Z"
    THEN DatetimeOfFields(ScanFields(SubSeq(s, 1, Len(s) - 1), 1,
                                     <<"-", "-", "T", ":", ":">>))
    ELSE Raise("ValueError")

\* datetime.datetime.fromtimestamp(t): the naive local datetime of an instant
FromTimestamp(t, zone) == t + zone

\* datetime.datetime.now(): the naive local datetime of the current instant
DatetimeNow(utcNow, zone) == utcNow + zone

\* float(s): Python's float of a string of decimal digits, ValueError for
\* any other string of the model's alphabet (the empty string included)
Float(s) ==
    IF s # <<>> /\ \A i \in DOMAIN s : s[i] \in Digits
    THEN Ok(ParseDigits(s))
    ELSE Raise("ValueError")

-----------------------------------------------------------------------------
(* Keywords and tracks *)

KEYWORDS ==
    << [code |-> <<"a","r">>, name |-> <<"A","r","t","i","s","t">>],
       [code |-> <<"a","l">>, name |-> <<"A","l","b","u","m">>],
       [code |-> <<"t","i">>, name |-> <<"T","i","t","l","e">>],
       [code |-> <<"t","n">>, name |-> <<"T","r","a","c","k">>],
       [code |-> <<"g","e">>, name |-> <<"G","e","n","r","e">>],
       [code |-> <<"y","e">>, name |-> <<"D","a","t","e">>],
       [code |-> <<"l","e">>, name |-> <<"T","i","m","e">>],
       [code |-> <<"f","p">>, name |-> <<"f","i","l","e">>],
       [code |-> <<"f","n">>, name |-> <<"k","e","y">>],
       [code |-> <<"m","t">>, name |-> <<"m","t","i","m","e">>],
       [code |-> <<"r","a">>, name |-> <<"R","a","t","i","n","g">>],
       [code |-> <<"r","a","a","r">>, name |-> <<"R","a","t","i","n","g","A","r">>],
       [code |-> <<"r","a","a","l">>, name |-> <<"R","a","t","i","n","g","A","l">>],
       [code |-> <<"r","a","g">>, name |-> <<"R","a","t","i","n","g","G","e">>],
       [code |-> <<"p","c">>, name |-> <<"P","l","a","y","C","o","u","n","t">>] >>

KeywordCodes == { KEYWORDS[i].code : i \in DOMAIN KEYWORDS }
KeywordNames == { KEYWORDS[i].name : i \in DOMAIN KEYWORDS }
KeywordName(code) == KEYWORDS[CHOOSE i \in DOMAIN KEYWORDS : KEYWORDS[i].code = code].name

\* A track is the record of the attributes the database entry gave it; every
\* other keyword attribute keeps the empty string Track.__init__ set.
\* getattr(track, name):
GetAttr(t, name) ==
    CASE name = <<"a","r","t","i","s","t">> -> t.artist
      [] name = <<"a","l","b","u","m">>     -> t.album
      [] name = <<"t","i","t","l","e">>     -> t.title
      [] name = <<"m","t","i","m","e">>     -> t.mtime
      [] name = <<"r","a","t","i","n","g">> -> t.rating
      [] name = <<"f","i","l","e">>         -> t.file
      [] OTHER                              -> <<>>

-----------------------------------------------------------------------------
(* Rules *)

\* the fields AbstractRule.__init__ sets, and those its subclasses add
RuleFields(cls, key, operator, delimiter, value, flags) ==
    [cls |-> cls, key |-> key, operator |-> operator,
     delimiter |-> delimiter, value |-> value, flags |-> flags,
     negate |-> "n" \in Range(flags),
     reFlags |-> {}, number |-> 0,
     delta |-> [s |-> 0, us |-> 0], now |-> 0, stamp |-> 0]

\* a resolution that knows the short codes only
ResolveCodeOnly(k) ==
    IF k \in KeywordCodes THEN <<KeywordName(k)>> ELSE <<>>

\* the track attribute a rule key names: KEYWORDS[key][0] for a short code,
\* the key itself for an attribute name, or <<>> for neither
ResolveKey(k) ==
    IF k \in KeywordCodes THEN <<KeywordName(k)>>
    ELSE IF k \in { Lower(n) : n \in KeywordNames } THEN <<k>>
    ELSE <<>>

\* AbstractRule.__init__, given the attribute its key resolves to
AbstractRuleResolved(resolved, cls, operator, delimiter, value, flags) ==
    IF resolved = <<>> THEN Raise("CustomException")
    ELSE Ok(RuleFields(cls, resolved[1], operator, delimiter, value, flags))

\* AbstractRule.__init__
AbstractRuleInit(cls, key, operator, delimiter, value, flags) ==
    AbstractRuleResolved(ResolveKey(Lower(key)), cls, operator, delimiter,
                         value, flags)

\* the rest of a constructor: a, what AbstractRule.__init__ made, with the
\* field the subclass computed, x, or whatever either raised
Construct(a, x, field) ==
    IF ~a.ok THEN a
    ELSE IF ~x.ok THEN x
    ELSE Ok([a.val EXCEPT ![field] = x.val])

\* AbstractRule.getOperator: self.OPERATORS[self.operator]
GetOperator(OPERATORS, r) ==
    IF \E e \in OPERATORS : e[1] = r.operator
    THEN Ok((CHOOSE e \in OPERATORS : e[1] = r.operator)[2])
    ELSE Raise("KeyError")

\* operator.eq, .lt, .gt, .ge, .le on two numbers
Apply(fn, a, b) ==
    CASE fn = "eq" -> a = b
      [] fn = "lt" -> a < b
      [] fn = "gt" -> a > b
      [] fn = "ge" -> a >= b
      [] fn = "le" -> a <= b

\* ---- RegexRule

RegexOPERATORS == { <<<<"=">>, "search">>, <<<<"!">>, "notsearch">> }
RegexFLAGS == { <<"i", "IGNORECASE">>, <<"l", "LOCALE">> }

\* self.reFlags of RegexRule.__init__: the flags of re, or KeyError
ReFlags(flags) ==
    IF \E i \in DOMAIN flags : flags[i] \notin { e[1] : e \in RegexFLAGS }
    THEN Raise("KeyError")
    ELSE Ok({ e[2] : e \in { x \in RegexFLAGS : x[1] \in Range(flags) } })

\* RegexRule.__init__
RegexRuleInit(key, operator, delimiter, value, flags) ==
    Construct(AbstractRuleInit("RegexRule", key, operator, delimiter, value, flags),
              ReFlags(flags), "reFlags")

\* A pattern of the model is literal text with grouping parentheses; one
\* whose parentheses do not balance does not compile.
RECURSIVE ParenDepth(_, _)
ParenDepth(p, d) ==
    IF p = <<>> THEN d
    ELSE IF d < 0 THEN d
    ELSE ParenDepth(Tail(p), IF Head(p) = "(" THEN d + 1
                             ELSE IF Head(p) = ")" THEN d - 1 ELSE d)
PatternCompiles(p) == ParenDepth(p, 0) = 0
PatternText(p) == SelectSeq(p, LAMBDA c : c \notin {"(", ")"})

\* whether text p occurs in string s
Occurs(p, s) ==
    \E i \in 1..(Len(s) + 1) :
        /\ i + Len(p) - 1 <= Len(s)
        /\ SubSeq(s, i, i + Len(p) - 1) = p

\* re.search(pattern, string, flags): whether there is a match, or re.error
ReSearch(pattern, string, flags) ==
    IF ~PatternCompiles(pattern) THEN Raise("re.error")
    ELSE IF "IGNORECASE" \in flags
         THEN Ok(Occurs(Lower(PatternText(pattern)), Lower(string)))
         ELSE Ok(Occurs(PatternText(pattern), string))

\* the operator op of RegexRule.OPERATORS applied to the search's outcome
RegexApply(op, hit) ==
    IF ~op.ok THEN op
    ELSE IF ~hit.ok THEN hit
    ELSE Ok(IF op.val = "search" THEN hit.val ELSE ~hit.val)

\* RegexRule.__match__
RegexRuleMatch(r, value) ==
    RegexApply(GetOperator(RegexOPERATORS, r), ReSearch(r.value, value, r.reFlags))

\* ---- NumberRule

NumberOPERATORS ==
    { <<<<"=">>, "eq">>, <<<<"<">>, "lt">>, <<<<">">>, "gt">>,
      <<<<">","=">>, "ge">>, <<<<"<","=">>, "ge">> }

\* NumberRule.__init__
NumberRuleInit(key, operator, delimiter, value, flags) ==
    Construct(AbstractRuleInit("NumberRule", key, operator, delimiter, value, flags),
              Float(value), "number")

\* the operator op applied to the numbers v and n, or what op or v raised
NumberApply(op, v, n) ==
    IF ~op.ok THEN op
    ELSE IF ~v.ok THEN v
    ELSE Ok(Apply(op.val, v.val, n))

\* NumberRule.__match__
NumberRuleMatch(r, value) ==
    NumberApply(GetOperator(NumberOPERATORS, r),
                IF value = <<>> THEN Ok(0) ELSE Float(value), r.number)

\* ---- TimeDeltaRule

TimeOPERATORS ==
    { <<<<"=">>, "eq">>, <<<<"<">>, "lt">>, <<<<">">>, "gt">>,
      <<<<">","=">>, "ge">>, <<<<"<","=">>, "le">> }

\* datetime.timedelta(**{unit : number}), as seconds and microseconds, or
\* TypeError for a keyword timedelta does not have
Timedelta(unit, number) ==
    CASE unit = <<"d","a","y","s">> -> Ok([s |-> number * SecondsPerDay, us |-> 0])
      [] unit = <<"s","e","c","o","n","d","s">> -> Ok([s |-> number, us |-> 0])
      [] unit = <<"m","i","c","r","o","s","e","c","o","n","d","s">> ->
            Ok([s |-> number \div 1000000, us |-> number % 1000000])
      [] unit = <<"m","i","l","l","i","s","e","c","o","n","d","s">> ->
            Ok([s |-> number \div 1000, us |-> (number % 1000) * 1000])
      [] unit = <<"m","i","n","u","t","e","s">> -> Ok([s |-> number * 60, us |-> 0])
      [] unit = <<"h","o","u","r","s">> -> Ok([s |-> number * 3600, us |-> 0])
      [] unit = <<"w","e","e","k","s">> -> Ok([s |-> number * 7 * SecondsPerDay, us |-> 0])
      [] OTHER -> Raise("TypeError")

\* cmp of two timedeltas: -1, 0 or 1
TimedeltaCmp(a, b) ==
    IF a.s < b.s \/ (a.s = b.s /\ a.us < b.us) THEN -1
    ELSE IF a = b THEN 0 ELSE 1

RECURSIVE SpaceRun(_, _)
SpaceRun(s, i) ==
    IF i <= Len(s) /\ IsSpace(s[i]) THEN 1 + SpaceRun(s, i + 1) ELSE 0
RECURSIVE LetterRun(_, _)
LetterRun(s, i) ==
    IF i <= Len(s) /\ s[i] \in Letters THEN 1 + LetterRun(s, i + 1) ELSE 0

\* the groups of TIME_DELTA_REGEX, given the lengths of the runs of digits,
\* spaces and letters value starts with
TimeDeltaGroups(value, nd, ns, nl) ==
    IF nd >= 1 /\ nl >= 1
    THEN <<[number |-> SubSeq(value, 1, nd),
            unit |-> SubSeq(value, nd + ns + 1, nd + ns + nl)]>>
    ELSE <<>>

\* re.match(TIME_DELTA_REGEX, value).groupdict(), or <<>> for no match
TimeDeltaRegex(value) ==
    TimeDeltaGroups(value, DigitRun(value, 1),
                    SpaceRun(value, DigitRun(value, 1) + 1),
                    LetterRun(value, DigitRun(value, 1)
                                       + SpaceRun(value, DigitRun(value, 1) + 1) + 1))

\* self.unit: lower case, with the plural s
Unit(u) == IF u[Len(u)] = "s" THEN u ELSE u \o <<"s">>

\* self.value of TimeDeltaRule.__init__, from the match m of the regex
DurationOf(m) ==
    IF m = <<>> THEN Raise("CustomException")
    ELSE Timedelta(Unit(Lower(m[1].unit)), ParseDigits(m[1].number))

\* self.number and self.now of TimeDeltaRule.__init__
WithNumberAndNow(c, m, localNow) ==
    IF ~c.ok THEN c
    ELSE Ok([c.val EXCEPT !.number = ParseDigits(m[1].number), !.now = localNow])

\* TimeDeltaRule.__init__
TimeDeltaRuleInit(key, operator, delimiter, value, flags, utcNow, zone) ==
    WithNumberAndNow(
        Construct(AbstractRuleInit("TimeDeltaRule", key, operator, delimiter,
                                   value, flags),
                  DurationOf(TimeDeltaRegex(value)), "delta"),
        TimeDeltaRegex(value), DatetimeNow(utcNow, zone))

\* the track's naive datetime, lines 163-166: what strptime gives or, when
\* it raises, what fromtimestamp(float(value)) gives or raises
TrackDatetime(iso, f, zone) ==
    IF iso.ok THEN iso
    ELSE IF ~f.ok THEN f
    ELSE Ok(FromTimestamp(f.val, zone))

\* line 167: the operator applied to delta and self.value
DeltaApply(r, t, op) ==
    IF ~t.ok THEN t
    ELSE IF ~op.ok THEN op
    ELSE Ok(Apply(op.val, TimedeltaCmp([s |-> r.now - t.val, us |-> 0], r.delta), 0))

\* TimeDeltaRule.__match__
TimeDeltaRuleMatch(r, value, zone) ==
    DeltaApply(r,
               TrackDatetime(IF value = <<>> THEN Raise("TypeError")
                                             ELSE StrptimeIso(value),
                             IF value = <<>> THEN Ok(0) ELSE Float(value),
                             zone),
               GetOperator(TimeOPERATORS, r))

\* ---- TimeStampRule

\* time.mktime of a parsed date, or what the parse raised
MktimeOf(ts, zone) == IF ~ts.ok THEN ts ELSE Ok(Mktime(ts.val, zone))

\* TimeStampRule.__init__
TimeStampRuleInit(key, operator, delimiter, value, flags, zone) ==
    Construct(AbstractRuleInit("TimeStampRule", key, operator, delimiter,
                               value, flags),
              MktimeOf(StrptimeDate(value), zone), "stamp")

\* lines 192-194 with the rounding left out: the timestamp as it is
Unrounded(t, zone) == t

\* lines 192-194: the timestamp rounded down to the precision of
\* TIME_STAMP_FORMAT
RoundDown(t, zone) ==
    Mktime(StrptimeDate(StrftimeDate(Gmtime(t))).val, zone)

\* line 195: the operator applied to the rounded timestamp and self.value
StampApply(r, f, op, zone) ==
    IF ~f.ok THEN f
    ELSE IF ~op.ok THEN op
    ELSE Ok(Apply(op.val, RoundDown(f.val, zone), r.stamp))

\* TimeStampRule.__match__
TimeStampRuleMatch(r, value, zone) ==
    StampApply(r, Float(value), GetOperator(TimeOPERATORS, r), zone)

\* ---- AbstractRule.match

\* self.__match__(attr), dispatched on the rule's class
ClassMatch(r, attr, zone) ==
    CASE r.cls = "RegexRule"     -> RegexRuleMatch(r, attr)
      [] r.cls = "NumberRule"    -> NumberRuleMatch(r, attr)
      [] r.cls = "TimeDeltaRule" -> TimeDeltaRuleMatch(r, attr, zone)
      [] r.cls = "TimeStampRule" -> TimeStampRuleMatch(r, attr, zone)

\* lines 83-85: the negation of what __match__ gave
Negated(r, m) ==
    IF ~m.ok THEN m
    ELSE Ok(IF r.negate THEN ~m.val ELSE m.val)

\* AbstractRule.match
Match(r, t, zone) == Negated(r, ClassMatch(r, GetAttr(t, Lower(r.key)), zone))

-----------------------------------------------------------------------------
(* RuleFactory *)

Delimiters == {"/", "%", "@", "#"}

\* The ways the pattern of getRule matches a prefix of s: <<k, o, v>> are the
\* lengths of key, operator and value; the delimiter stands at k+o+1 and
\* again at k+o+v+2.
RuleSplits(s) ==
    LET n == Len(s)
        w == WordRun(s, 1)
    IN  UNION { UNION { { <<k, o, v>> :
                            v \in { u \in 1..(n - k - o - 2) :
                                      s[k + o + u + 2] = s[k + o + 1] } } :
                        o \in { p \in 1..(n - k - 3) :
                                  s[k + p + 1] \in Delimiters } } :
                k \in 1..w }

\* the groups of the split <<k, o, v>> of s
GroupsAt(s, k, o, v) ==
    [key |-> SubSeq(s, 1, k),
     operator |-> SubSeq(s, k + 1, k + o),
     delimiter |-> s[k + o + 1],
     value |-> SubSeq(s, k + o + 2, k + o + v + 1),
     flags |-> SubSeq(s, k + o + v + 3,
                      k + o + v + 2 + WordRun(s, k + o + v + 3))]

\* The match the backtracking search finds first among the splits S: the
\* key greedy, then the operator lazy, then the value greedy.
FirstKey(S) == Max({ x[1] : x \in S })
FirstOperator(S, k) == Min({ x[2] : x \in { y \in S : y[1] = k } })
FirstValue(S, k, o) == Max({ x[3] : x \in { y \in S : y[1] = k /\ y[2] = o } })
FirstSplit(S, k, o) == <<k, o, FirstValue(S, k, o)>>
FirstMatch(S, k) == FirstSplit(S, k, FirstOperator(S, k))

\* m.groupdict() of the match split x of s
GroupDict(s, x) == GroupsAt(s, x[1], x[2], x[3])

\* m.groupdict() of getRule, for a string the pattern matches
RuleGroups(s) == GroupDict(s, FirstMatch(RuleSplits(s), FirstKey(RuleSplits(s))))

\* ruleClass(**d)
RuleClass(d, utcNow, zone) ==
    CASE d.delimiter = "/" ->
           RegexRuleInit(d.key, d.operator, d.delimiter, d.value, d.flags)
      [] d.delimiter = "%" ->
           TimeDeltaRuleInit(d.key, d.operator, d.delimiter, d.value,
                             d.flags, utcNow, zone)
      [] d.delimiter = "@" ->
           TimeStampRuleInit(d.key, d.operator, d.delimiter, d.value,
                             d.flags, zone)
      [] d.delimiter = "#" ->
           NumberRuleInit(d.key, d.operator, d.delimiter, d.value, d.flags)

\* RuleFactory.getRule
GetRule(s, utcNow, zone) ==
    IF RuleSplits(s) = {} THEN Raise("CustomException")
    ELSE RuleClass(RuleGroups(s), utcNow, zone)

-----------------------------------------------------------------------------
(* Playlist and Track *)

RECURSIVE SplitRules(_)
\* Playlist.REGEX.split(text): the pieces between the commas, the white
\* space around each comma dropped; a text without a comma is one piece
SplitRules(text) ==
    IF \A i \in DOMAIN text : text[i] # ","
    THEN <<text>>
    ELSE LET c == Min({ i \in DOMAIN text : text[i] = "," })
             b == Max({ i \in 0..(c - 1) : i = 0 \/ ~IsSpace(text[i]) })
             a == c + 1 + SpaceRun(text, c + 1)
         IN <<SubSeq(text, 1, b)>> \o SplitRules(SubSeq(text, a, Len(text)))

\* a rule r in front of the rules rest, or what the first of them raised
ConsRule(r, rest) ==
    IF ~r.ok THEN r
    ELSE IF ~rest.ok THEN rest
    ELSE Ok(<<r.val>> \o rest.val)

RECURSIVE GetRules(_, _, _)
\* [ RuleFactory.getRule(r) for r in pieces ]: the rules, or what the first
\* failing getRule raises
GetRules(pieces, utcNow, zone) ==
    IF pieces = <<>> THEN Ok(<<>>)
    ELSE ConsRule(GetRule(Head(pieces), utcNow, zone),
                  GetRules(Tail(pieces), utcNow, zone))

\* Playlist.__init__: the playlist's rules
PlaylistInit(text, utcNow, zone) == GetRules(SplitRules(text), utcNow, zone)

\* the characters of the model in ASCII order
AsciiOrder ==
    <<" ", "!", "#", "%", "(", ")", ",", "-", "/">> \o DigitChars
        \o <<":", "<", "=", ">", "@">> \o UpperCase \o <<"_">> \o LowerCase
Ord(c) == CHOOSE i \in DOMAIN AsciiOrder : AsciiOrder[i] = c

RECURSIVE StrCmp(_, _)
\* cmp of two strings: -1, 0 or 1
StrCmp(a, b) ==
    IF a = <<>> /\ b = <<>> THEN 0
    ELSE IF a = <<>> THEN -1
    ELSE IF b = <<>> THEN 1
    ELSE IF Ord(Head(a)) < Ord(Head(b)) THEN -1
    ELSE IF Ord(Head(a)) > Ord(Head(b)) THEN 1
    ELSE StrCmp(Tail(a), Tail(b))

\* Track.__cmp__
TrackCmp(t1, t2) ==
    StrCmp(t1.artist \o t1.album \o t1.title, t2.artist \o t2.album \o t2.title)

\* one step of a sort that reverses equal tracks: x goes before its equals
InsertBeforeEqual(sorted, x) ==
    LET n == Cardinality({ i \in DOMAIN sorted : TrackCmp(sorted[i], x) < 0 })
    IN  SubSeq(sorted, 1, n) \o <<x>> \o SubSeq(sorted, n + 1, Len(sorted))

\* one step of list.sort(): x, which followed the tracks of sorted in the
\* list, goes behind every track that is not greater
Insert(sorted, x) ==
    LET n == Cardinality({ i \in DOMAIN sorted : TrackCmp(sorted[i], x) <= 0 })
    IN  SubSeq(sorted, 1, n) \o <<x>> \o SubSeq(sorted, n + 1, Len(sorted))

RECURSIVE Sort(_)
\* list.sort() by Track.__cmp__: a stable sort
Sort(s) ==
    IF s = <<>> THEN <<>>
    ELSE Insert(Sort(SubSeq(s, 1, Len(s) - 1)), s[Len(s)])

\* lines 262-264: a rule that does not match ends the loop
AndAlso(m, rest) ==
    IF ~m.ok THEN m
    ELSE IF ~m.val THEN Ok(FALSE)
    ELSE rest

RECURSIVE MatchAll(_, _, _)
\* the inner loop of findMatchingTracks: toAdd, or what a match raises
MatchAll(rules, t, zone) ==
    IF rules = <<>> THEN Ok(TRUE)
    ELSE AndAlso(Match(Head(rules), t, zone), MatchAll(Tail(rules), t, zone))

\* lines 266-267: the track is appended when toAdd
Append1(t, toAdd, rest) ==
    IF ~toAdd.ok THEN toAdd
    ELSE IF ~rest.ok THEN rest
    ELSE Ok((IF toAdd.val THEN <<t>> ELSE <<>>) \o rest.val)

RECURSIVE Select(_, _, _)
\* the outer loop of findMatchingTracks: self.tracks before the sort
Select(rules, tracks, zone) ==
    IF tracks = <<>> THEN Ok(<<>>)
    ELSE Append1(Head(tracks), MatchAll(rules, Head(tracks), zone),
                 Select(rules, Tail(tracks), zone))

RECURSIVE Join(_, _)
\* sep.join(strings)
Join(strings, sep) ==
    IF strings = <<>> THEN <<>>
    ELSE IF Len(strings) = 1 THEN strings[1]
    ELSE strings[1] \o sep \o Join(Tail(strings), sep)

\* Playlist.setM3u
SetM3u(tracks) == Join([ i \in DOMAIN tracks |-> tracks[i].file ], <<"\n">>)

\* self.tracks and self.m3u, once sorted
Evaluated(sorted) == Ok([tracks |-> sorted, m3u |-> SetM3u(sorted)])

\* lines 269-270: the sort and setM3u, or what the loop raised
SortAndSet(sel) == IF ~sel.ok THEN sel ELSE Evaluated(Sort(sel.val))

\* Playlist.findMatchingTracks: self.tracks and self.m3u
FindMatchingTracks(rules, tracks, zone) == SortAndSet(Select(rules, tracks, zone))

-----------------------------------------------------------------------------
(* The inputs the model draws from *)

\* the instants of the model lie on the days Day0 .. Day0 + MaxDays
MaxDays == 2

\* 2010-01-01T00:00:00Z, in epoch seconds
Day0 == DaysFromCivil(2010, 1, 1) * SecondsPerDay

\* the first and the last second of each day
Instants ==
    UNION { { Day0 + d * SecondsPerDay, Day0 + (d + 1) * SecondsPerDay - 1 } :
            d \in 0..MaxDays }

\* UTC offsets of the local time zone, in seconds
Zones == { -3600, 0, 3600 }

\* the instant the process runs at: 2010-01-05T00:00:00Z
RunInstants == { Day0 + 4 * SecondsPerDay }

\* how the database writes an instant: MPD's Last-Modified (ISO-8601, UTC) ...
FormatIso(t) ==
    LET secs == t % SecondsPerDay
    IN  StrftimeDate(CivilFromDays(t \div SecondsPerDay)) \o <<"T">>
          \o FormatDigits(secs \div 3600, 2) \o <<":">>
          \o FormatDigits((secs % 3600) \div 60, 2) \o <<":">>
          \o FormatDigits(secs % 60, 2) \o <<"Z">>
\* ... or the mtime of the older database format (epoch seconds)
FormatEpoch(t) == FormatDigits(t, 1)

MtimeValues ==
    { FormatIso(t) : t \in Instants } \cup { FormatEpoch(t) : t \in Instants }
        \cup { <<>>, <<"a","b","c">> }
RatingValues == { <<>>, <<"1","0">>, <<"3","0">>, <<"4","0">>, <<"a","b","c">> }
ArtistValues == { <<"F","r","e","d">>, <<"B","o","b">> }

BaseTrack ==
    [artist |-> <<"F","r","e","d">>, album |-> <<"A">>, title |-> <<"T">>,
     mtime |-> FormatIso(Day0), rating |-> <<"3","0">>, file |-> <<"f">>]

\* the tracks a single rule is tried on: one attribute varies at a time
RuleTracks ==
    { [BaseTrack EXCEPT !.artist = a] : a \in ArtistValues }
        \cup { [BaseTrack EXCEPT !.mtime = m] : m \in MtimeValues }
        \cup { [BaseTrack EXCEPT !.rating = r] : r \in RatingValues }

\* key + operator + delimiter + value + delimiter + flags
RuleText(key, op, d, value, flags) == key \o op \o <<d>> \o value \o <<d>> \o flags

CompareOps == { <<"=">>, <<"<">>, <<">">>, <<"<","=">>, <<">","=">> }
NoFlagOrN == { <<>>, <<"n">> }

RegexRuleStrings ==
    { RuleText(<<"a","r">>, op, "/", v, f) :
        op \in { <<"=">>, <<"!">>, <<"<">> },
        v \in { <<"F","r","e">>, <<"f","r","e">>, <<"(">> },
        f \in { <<>>, <<"i">>, <<"n">> } }
NumberRuleStrings ==
    { RuleText(<<"r","a">>, op, "#", v, f) :
        op \in CompareOps \cup { <<"!">> },
        v \in { <<"3","0">>, <<"a","b","c">> },
        f \in NoFlagOrN }
TimeDeltaRuleStrings ==
    { RuleText(<<"m","t">>, op, "%", v, f) :
        op \in CompareOps \cup { <<"!">> },
        v \in { <<"3","d","a","y","s">>, <<"7","2"," ","H","o","u","r">>,
                <<"d","a","y","s">>, <<"3","f","o","o">> },
        f \in NoFlagOrN }
TimeStampRuleStrings ==
    { RuleText(<<"m","t">>, op, "@", v, f) :
        op \in CompareOps \cup { <<"!">> },
        v \in { <<"2","0","1","0","-","0","1","-","0","2">>,
                <<"2","0","1","0","-","1","3","-","0","1">> },
        f \in NoFlagOrN }
OddRuleStrings ==
    { <<>>, <<"a","r","=","(","F","r","e","/">>,
      RuleText(<<"x","x">>, <<"=">>, "/", <<"F","r","e">>, <<>>),
      RuleText(<<"A","r","t","i","s","t">>, <<"=">>, "/", <<"F","r","e">>, <<>>) }

\* a string in upper case
UpperChar(c) ==
    IF c \in Range(LowerCase)
    THEN UpperCase[CHOOSE i \in DOMAIN LowerCase : LowerCase[i] = c]
    ELSE c
Upper(s) == [ i \in DOMAIN s |-> UpperChar(s[i]) ]

\* the ways a rule may write the keyword entry e: its short code or its
\* attribute name, as KEYWORDS has them, in lower case or in upper case
KeySpellings(e) ==
    { e.code, Upper(e.code), e.name, Lower(e.name), Upper(e.name) }
UnknownKeys ==
    { <<"a">>, <<"a","r","t","i","s","t","s">>, <<"N","a","m","e">>,
      <<"r","a","_">> }
KeyedRuleStrings ==
    { RuleText(k, <<"=">>, "/", v, <<>>) :
        k \in UNION { KeySpellings(KEYWORDS[i]) : i \in DOMAIN KEYWORDS }
                 \cup UnknownKeys,
        v \in { <<"F","r","e">>, <<"0">> } }

\* rule strings that are not key, operator, delimited value and flags from
\* end to end
SyntaxRuleStrings ==
    { <<"a","r","=","/","F","r","e">>,
      <<"a","r","=","/","F","r","e","@">>,
      <<"a","r","=","/","F","r","/","e","/">>,
      <<"a","r","=","/","F","r","e","/"," ","x">>,
      <<"a","r","=","/","F","r","e","/","i","!","x">>,
      <<"r","a","=","#","3","0","#","#">> }

RuleStrings ==
    RegexRuleStrings \cup NumberRuleStrings \cup TimeDeltaRuleStrings
        \cup TimeStampRuleStrings \cup OddRuleStrings \cup SyntaxRuleStrings
        \cup KeyedRuleStrings

NotYet == [ok |-> FALSE, err |-> "-"]

\* the variables of a specification that does not use them
IdleRule ==
    /\ ruleString = <<>> /\ track = BaseTrack
    /\ rule = NotYet /\ matched = NotYet /\ rpc = "idle"
IdlePlaylist ==
    /\ ruleset1 = <<>> /\ ruleset2 = <<>> /\ db = <<>>
    /\ playlists = <<>> /\ found = <<>> /\ ppc = "idle"
NoDB == [version |-> -1, tracks |-> <<>>]
NoCache == [exists |-> FALSE, obj |-> NoDB]
NoArgs == [forceUpdate |-> FALSE, dataDir |-> FALSE]
NoProcess ==
    /\ args = NoArgs /\ playlistSet = <<>> /\ mpdDB = NoDB
    /\ todo = {} /\ mpc = "idle" /\ exit = "-"
IdleIpod ==
    /\ ipodDB = [master |-> {}, playlists |-> <<>>]
    /\ syncArgs = [name |-> "", tracks |-> <<>>]
    /\ syncResult = NotYet
IdleRun ==
    /\ source = 0 /\ cacheFile = NoCache
    /\ dataDir = [exists |-> FALSE, files |-> <<>>] /\ playlistDir = <<>>
    /\ NoProcess

-----------------------------------------------------------------------------
(* SpecRule: one rule is parsed, then matched against one track *)

InitRule ==
    /\ ruleString \in RuleStrings
    /\ track \in RuleTracks
    /\ tz \in Zones
    /\ now \in RunInstants
    /\ rule = NotYet
    /\ matched = NotYet
    /\ rpc = "parse"
    /\ IdlePlaylist
    /\ IdleRun
    /\ IdleIpod

\* RuleFactory.getRule(ruleString), as Playlist.__init__ calls it
ParseRule ==
    /\ rpc = "parse"
    /\ rule' = GetRule(ruleString, now, tz)
    /\ rpc' = IF rule'.ok THEN "match" ELSE "done"
    /\ UNCHANGED <<ruleString, track, matched, playlistVars, runVars, envVars, ipodVars>>

\* rule.match(track), as Playlist.findMatchingTracks calls it
MatchRule ==
    /\ rpc = "match"
    /\ matched' = Match(rule.val, track, tz)
    /\ rpc' = "done"
    /\ UNCHANGED <<ruleString, rule, track, playlistVars, runVars, envVars, ipodVars>>

NextRule == ParseRule \/ MatchRule

SpecRule == InitRule /\ [][NextRule]_vars

-----------------------------------------------------------------------------
(* SpecPlaylist: playlists are built from two rulesets and evaluated on a  *)
(* database                                                                *)

\* the database holds at most MaxTracks tracks
MaxTracks == 3

\* what a database entry says of a track, its file apart
TrackBodies ==
    { [artist |-> <<"A">>, album |-> <<"B">>, mtime |-> FormatIso(Day0)],
      [artist |-> <<"A","B">>, album |-> <<>>, mtime |-> FormatEpoch(Day0)],
      [artist |-> <<"A">>, album |-> <<"A">>, mtime |-> <<"a","b","c">>],
      [artist |-> <<"A">>, album |-> <<>>, mtime |-> <<>>] }

\* the track of the i-th entry: files are the keys of MpdDB.tracks, so no
\* two tracks share one
MakeTrack(body, i) ==
    [artist |-> body.artist, album |-> body.album, title |-> <<"T">>,
     mtime |-> body.mtime, rating |-> <<>>, file |-> <<"f", DigitChars[i + 1]>>]

Databases ==
    UNION { { [ i \in 1..n |-> MakeTrack(b[i], i) ] : b \in [1..n -> TrackBodies] } :
            n \in 0..MaxTracks }

RulesetTexts ==
    { <<>>,
      RuleText(<<"a","r">>, <<"=">>, "/", <<"A">>, <<>>),
      RuleText(<<"a","l">>, <<"!">>, "/", <<"A">>, <<>>),
      RuleText(<<"m","t">>, <<"<">>, "@",
               <<"2","0","1","0","-","0","1","-","0","2">>, <<>>),
      RuleText(<<"m","t">>, <<">">>, "%", <<"3","d","a","y","s">>, <<>>),
      RuleText(<<"a","r">>, <<"=">>, "/", <<"A">>, <<>>) \o <<" ", ",", " ">>
        \o RuleText(<<"a","l">>, <<"=">>, "/", <<"B">>, <<>>) }

\* the playlists: R1, R2, the rules of R1 followed by those of R2, and the
\* rules of R2 followed by those of R1
PlaylistNames == { "r1", "r2", "r12", "r21" }
PlaylistText(name) ==
    CASE name = "r1"  -> ruleset1
      [] name = "r2"  -> ruleset2
      [] name = "r12" -> ruleset1 \o <<",">> \o ruleset2
      [] name = "r21" -> ruleset2 \o <<",">> \o ruleset1

InitPlaylist ==
    /\ ruleset1 \in RulesetTexts
    /\ ruleset2 \in RulesetTexts
    /\ db \in Databases
    /\ tz \in Zones
    /\ now \in RunInstants
    /\ playlists = [ n \in PlaylistNames |-> NotYet ]
    /\ found = [ n \in PlaylistNames |-> NotYet ]
    /\ ppc = "new"
    /\ IdleRule
    /\ IdleRun
    /\ IdleIpod

\* Playlist(name, text), for each playlist
NewPlaylists ==
    /\ ppc = "new"
    /\ playlists' = [ n \in PlaylistNames |-> PlaylistInit(PlaylistText(n), now, tz) ]
    /\ ppc' = "find"
    /\ UNCHANGED <<ruleset1, ruleset2, db, found, ruleVars, runVars, envVars, ipodVars>>

\* playlist.findMatchingTracks(mpdDB), for each playlist that was built
FindTracks ==
    /\ ppc = "find"
    /\ found' = [ n \in PlaylistNames |->
                    IF playlists[n].ok
                    THEN FindMatchingTracks(playlists[n].val, db, tz)
                    ELSE NotYet ]
    /\ ppc' = "done"
    /\ UNCHANGED <<ruleset1, ruleset2, db, playlists, ruleVars, runVars, envVars, ipodVars>>

NextPlaylist == NewPlaylists \/ FindTracks

SpecPlaylist == InitPlaylist /\ [][NextPlaylist]_vars

-----------------------------------------------------------------------------
(* SpecRun: runs of the program, one after the other, on sources, a cache  *)
(* and a data directory that change between the runs                       *)

\* the sources change at most MaxUpdates times
MaxUpdates == 2
\* the clock advances at most MaxTicks days
MaxTicks == 1

\* the k-th track MPD lists; version v of its database lists the first v + 1
SourceTrack(k) ==
    MakeTrack([artist |-> <<"A">>, album |-> <<"B">>,
               mtime |-> IF k % 3 = 0
                         THEN <<"a","b","c">>
                         ELSE FormatEpoch(Day0 + (k - 1) * SecondsPerDay)], k)

\* MpdDB(host, port, ...): the tracks MPD lists now
MpdDBInit(v) == [version |-> v, tracks |-> [ k \in 1..(v + 1) |-> SourceTrack(k) ]]

\* d[k] = v
Put(d, k, v) == [ x \in DOMAIN d \cup {k} |-> IF x = k THEN v ELSE d[x] ]

\* Playlist(name, ruleString)
WithRules(name, r) ==
    IF r.ok
    THEN Ok([name |-> name, rules |-> r.val, tracks |-> <<>>, m3u |-> <<>>])
    ELSE r
NewPlaylist(name, text, utcNow, zone) ==
    WithRules(name, PlaylistInit(text, utcNow, zone))

\* the rulesets of the command line: tracks of the last 4 days, tracks of
\* artist A, and the empty ruleset
RunRulesets ==
    { RuleText(<<"m","t">>, <<"<","=">>, "%", <<"4","d","a","y","s">>, <<>>),
      RuleText(<<"a","r">>, <<"=">>, "/", <<"A">>, <<>>),
      <<>> }
\* -n NAME RULESET, given at most once
NewOptions ==
    { <<>> } \cup { << [name |-> "p", ruleSet |-> t] >> : t \in RunRulesets }
\* -o RULESET; the empty string when it is not given
OutputOptions ==
    { <<>>, RuleText(<<"m","t">>, <<"<","=">>, "%", <<"4","d","a","y","s">>, <<>>) }

\* parseArgs: options.playlists as a dictionary, then the stdout playlist
PutPlaylist(d, name, p) == IF p.ok THEN Ok(Put(d, name, p.val)) ELSE p
AddNamed(d, option, utcNow, zone) ==
    IF d.ok
    THEN PutPlaylist(d.val, option.name,
                     NewPlaylist(option.name, option.ruleSet, utcNow, zone))
    ELSE d
RECURSIVE NamedPlaylists(_, _, _)
NamedPlaylists(options, utcNow, zone) ==
    IF options = <<>>
    THEN Ok(<<>>)
    ELSE AddNamed(NamedPlaylists(SubSeq(options, 1, Len(options) - 1), utcNow, zone),
                  options[Len(options)], utcNow, zone)
AddStdout(d, simpleOutput, utcNow, zone) ==
    IF d.ok /\ simpleOutput # <<>>
    THEN PutPlaylist(d.val, "stdout",
                     NewPlaylist("stdout", simpleOutput, utcNow, zone))
    ELSE d
ParsedPlaylists(options, simpleOutput, utcNow, zone) ==
    AddStdout(NamedPlaylists(options, utcNow, zone), simpleOutput, utcNow, zone)

\* except CustomException: sys.exit(2); any other exception is not caught
ExitOf(err) == IF err = "CustomException" THEN "2" ELSE err

InitRun ==
    /\ source = 0
    /\ cacheFile = NoCache
    /\ dataDir \in { [exists |-> e, files |-> <<>>] : e \in BOOLEAN }
    /\ playlistDir = <<>>
    /\ NoProcess
    /\ tz \in Zones
    /\ now \in RunInstants
    /\ IdleRule
    /\ IdlePlaylist
    /\ IdleIpod

\* between two runs: MPD updates its database, or a rating changes
UpdateSource ==
    /\ mpc = "idle"
    /\ source < MaxUpdates
    /\ source' = source + 1
    /\ UNCHANGED <<cacheFile, dataDir, playlistDir, procVars, ruleVars,
                   playlistVars, envVars, ipodVars>>

\* between two runs: the cache file is removed
DeleteCache ==
    /\ mpc = "idle"
    /\ cacheFile.exists
    /\ cacheFile' = NoCache
    /\ UNCHANGED <<source, dataDir, playlistDir, procVars, ruleVars,
                   playlistVars, envVars, ipodVars>>

\* between two runs: a day goes by
Tick ==
    /\ mpc = "idle"
    /\ \E t \in RunInstants : now < t + MaxTicks * SecondsPerDay
    /\ now' = now + SecondsPerDay
    /\ UNCHANGED <<tz, runVars, ruleVars, playlistVars, ipodVars>>

\* the run ends where an exception leaves the try block
Abort(err) ==
    /\ mpc' = "exited"
    /\ exit' = ExitOf(err)

\* parseArgs(sys.argv[1:])
Started(f, simpleOutput, d) ==
    /\ args' = [forceUpdate |-> f, dataDir |-> (simpleOutput = <<>>)]
    /\ IF d.ok
       THEN playlistSet' = d.val /\ mpc' = "db" /\ exit' = "-"
       ELSE playlistSet' = <<>> /\ Abort(d.err)
    /\ UNCHANGED <<mpdDB, todo, fileVars, ruleVars, playlistVars, envVars, ipodVars>>
ParseArgs ==
    /\ mpc = "idle"
    /\ \E f \in BOOLEAN, o \in OutputOptions, n \in NewOptions :
          Started(f, o, ParsedPlaylists(n, o, now, tz))

\* if forceUpdate: MpdDB(...), save(); else: MpdDB.load()
Rebuilt(d) ==
    /\ mpdDB' = d
    /\ cacheFile' = [exists |-> TRUE, obj |-> d]
    /\ mpc' = "marshal"
    /\ UNCHANGED exit
Loaded(d) ==
    /\ mpdDB' = d
    /\ mpc' = "marshal"
    /\ UNCHANGED <<cacheFile, exit>>
OpenDB ==
    /\ mpc = "db"
    /\ IF args.forceUpdate
       THEN Rebuilt(MpdDBInit(source))
       ELSE IF cacheFile.exists
            THEN Loaded(cacheFile.obj)
            ELSE Abort("IOError") /\ UNCHANGED <<mpdDB, cacheFile>>
    /\ UNCHANGED <<source, dataDir, playlistDir, args, playlistSet, todo,
                   ruleVars, playlistVars, envVars, ipodVars>>

\* if dataDir: for name in os.listdir(CACHE_DIR): addMarshalled(name)
Marshalled(d) ==
    /\ playlistSet' = d
    /\ todo' = DOMAIN d
    /\ mpc' = "evaluate"
    /\ UNCHANGED exit
AddMarshalled ==
    /\ mpc = "marshal"
    /\ IF ~args.dataDir
       THEN Marshalled(playlistSet)
       ELSE IF ~dataDir.exists
            THEN Abort("OSError") /\ UNCHANGED <<playlistSet, todo>>
            ELSE IF DOMAIN dataDir.files \cap DOMAIN playlistSet # {}
                 THEN Abort("CustomException") /\ UNCHANGED <<playlistSet, todo>>
                 ELSE Marshalled([ n \in DOMAIN dataDir.files \cup DOMAIN playlistSet |->
                                     IF n \in DOMAIN playlistSet
                                     THEN playlistSet[n]
                                     ELSE dataDir.files[n] ])
    /\ UNCHANGED <<fileVars, args, mpdDB, ruleVars, playlistVars, envVars, ipodVars>>

\* one turn of the loop: findMatchingTracks, then print, or writeM3u and save
Written(p) ==
    /\ playlistSet' = Put(playlistSet, p.name, p)
    /\ todo' = todo \ { p.name }
    /\ IF args.dataDir
       THEN /\ playlistDir' = Put(playlistDir, p.name, p.m3u \o <<"\n">>)
            /\ dataDir' = [dataDir EXCEPT !.files = Put(dataDir.files, p.name, p)]
       ELSE UNCHANGED <<playlistDir, dataDir>>
    /\ UNCHANGED <<mpc, exit>>
Visited(p, r) ==
    IF r.ok
    THEN Written([p EXCEPT !.tracks = r.val.tracks, !.m3u = r.val.m3u])
    ELSE Abort(r.err) /\ UNCHANGED <<playlistSet, todo, playlistDir, dataDir>>
EvaluatePlaylist ==
    /\ mpc = "evaluate"
    /\ \E name \in todo :
          Visited(playlistSet[name],
                  FindMatchingTracks(playlistSet[name].rules, mpdDB.tracks, tz))
    /\ UNCHANGED <<source, cacheFile, args, mpdDB, ruleVars, playlistVars, envVars, ipodVars>>

\* the loop is over
Finish ==
    /\ mpc = "evaluate"
    /\ todo = {}
    /\ mpc' = "exited"
    /\ exit' = "0"
    /\ UNCHANGED <<fileVars, args, playlistSet, mpdDB, todo, ruleVars,
                   playlistVars, envVars, ipodVars>>

\* the process is gone, and its memory with it
Exit ==
    /\ mpc = "exited"
    /\ args' = NoArgs /\ playlistSet' = <<>> /\ mpdDB' = NoDB
    /\ todo' = {} /\ mpc' = "idle" /\ exit' = "-"
    /\ UNCHANGED <<fileVars, ruleVars, playlistVars, envVars, ipodVars>>

NextRun ==
    \/ UpdateSource \/ DeleteCache \/ Tick
    \/ ParseArgs \/ OpenDB \/ AddMarshalled \/ EvaluatePlaylist \/ Finish \/ Exit

SpecRun == InitRun /\ [][NextRun]_vars

-----------------------------------------------------------------------------
(* SpecIpod: iPod.sync_playlist is called once on a device                 *)

\* a playlist and a list of tracks hold at most MaxMembers tracks
MaxMembers == 3

\* the tracks of the device: the first two are two files with the same tags
IpodTracks ==
    { [id |-> 1, title |-> <<"T">>, artist |-> <<"A">>, album |-> <<"B">>],
      [id |-> 2, title |-> <<"T">>, artist |-> <<"A">>, album |-> <<"B">>],
      [id |-> 3, title |-> <<"U">>, artist |-> <<"A">>, album |-> <<"B">>] }
TrackLists == UNION { [1..n -> IpodTracks] : n \in 0..MaxMembers }

compare_tracks(a, b) ==
    a.title = b.title /\ a.artist = b.artist /\ a.album = b.album

\* The playlist and the Master playlist while sync_playlist runs: members is
\* the list of the playlist, master the tracks of Master, err the exception
\* raised so far ("" for none).
\* gpod.Playlist.add(track, pos): g_list_insert, at the end for pos = -1 or
\* a pos past the end
InsertAt(m, t, pos) ==
    IF pos < 0 \/ pos >= Len(m)
    THEN Append(m, t)
    ELSE SubSeq(m, 1, pos) \o <<t>> \o SubSeq(m, pos + 1, Len(m))
PlaylistAdd(st, t, pos) ==
    IF st.err # "" THEN st ELSE [st EXCEPT !.members = InsertAt(@, t, pos)]

\* gpod.Playlist.remove(track): g_list_remove takes the first occurrence
\* out; for a track the playlist does not hold the library either raises
\* DatabaseException (strict) or does nothing
RemoveFirst(m, t) ==
    LET k == Min({ i \in DOMAIN m : m[i] = t })
    IN  SubSeq(m, 1, k - 1) \o SubSeq(m, k + 1, Len(m))
Missing(st, strict) ==
    IF strict THEN [st EXCEPT !.err = "DatabaseException"] ELSE st
PlaylistRemove(st, t, strict) ==
    IF st.err # "" THEN st
    ELSE IF t \in Range(st.members)
         THEN [st EXCEPT !.members = RemoveFirst(@, t)]
         ELSE Missing(st, strict)
MasterRemove(st, t, strict) ==
    IF st.err # "" THEN st
    ELSE IF t \in st.master
         THEN [st EXCEPT !.master = @ \ {t}]
         ELSE Missing(st, strict)

\* playlist.remove(t); self.db.Master.remove(t)
Removed(st, t, strict) == MasterRemove(PlaylistRemove(st, t, strict), t, strict)

\* lines 64-71: the body of the loop for the i-th track (i from 0)
LoopBody(st, t, i, strict) ==
    IF st.err # "" THEN st
    ELSE IF i >= Len(st.members)
         THEN PlaylistAdd(st, t, -1)
         ELSE IF ~compare_tracks(t, st.members[i + 1])
              THEN PlaylistAdd(Removed(st, st.members[i + 1], strict), t, i)
              ELSE st

RECURSIVE Enumerate(_, _, _, _)
\* lines 63-71: for i, track in enumerate(tracks), from the i-th on
Enumerate(st, tracks, i, strict) ==
    IF i >= Len(tracks) THEN st
    ELSE Enumerate(LoopBody(st, tracks[i + 1], i, strict), tracks, i + 1, strict)

RECURSIVE RemoveEach(_, _, _)
\* lines 73-75: for track in playlist[i + 1:], the slice taken beforehand
RemoveEach(st, rest, strict) ==
    IF rest = <<>> THEN st
    ELSE RemoveEach(Removed(st, Head(rest), strict), Tail(rest), strict)

\* lines 72-75: i is the last index of the loop, and is not bound when the
\* loop had no turn
Trimmed(st, tracks, strict) ==
    IF st.err # "" THEN st
    ELSE IF tracks = <<>> THEN [st EXCEPT !.err = "UnboundLocalError"]
    ELSE IF Len(st.members) - 1 > Len(tracks) - 1
         THEN RemoveEach(st, SubSeq(st.members, Len(tracks) + 1, Len(st.members)),
                         strict)
         ELSE st

\* the device and the outcome after the playlist k was brought to st
Outcome(d, k, st) ==
    [db |-> [master |-> st.master,
             playlists |-> [d.playlists EXCEPT ![k].members = st.members]],
     result |-> IF st.err = "" THEN Ok(TRUE) ELSE Raise(st.err)]

\* lines 60-76: the first playlist of the device with that name
SyncExisting(d, k, tracks, strict) ==
    Outcome(d, k,
            Trimmed(Enumerate([members |-> d.playlists[k].members,
                               master |-> d.master, err |-> ""],
                              tracks, 0, strict),
                    tracks, strict))

\* lines 77-81: no playlist has that name
SyncNew(d, name, tracks) ==
    [db |-> [d EXCEPT !.playlists = Append(@, [name |-> name, members |-> tracks])],
     result |-> Ok(TRUE)]

\* the playlists of the device d called name
Named(d, name) == { k \in DOMAIN d.playlists : d.playlists[k].name = name }

\* iPod.sync_playlist(name, tracks)
sync_playlist(d, name, tracks, strict) ==
    IF Named(d, name) = {}
    THEN SyncNew(d, name, tracks)
    ELSE SyncExisting(d, Min(Named(d, name)), tracks, strict)

InitIpod ==
    /\ ipodDB \in { [master |-> IpodTracks, playlists |-> pl] :
                     pl \in { <<>> } \cup
                            { << [name |-> "run", members |-> m] >> :
                                 m \in TrackLists } }
    /\ syncArgs \in { [name |-> "run", tracks |-> t] : t \in TrackLists }
    /\ syncResult = NotYet
    /\ tz = 0
    /\ now = Day0
    /\ IdleRule
    /\ IdlePlaylist
    /\ IdleRun

Returned(r) ==
    /\ ipodDB' = r.db
    /\ syncResult' = r.result
SyncPlaylist ==
    /\ syncResult = NotYet
    /\ \E strict \in BOOLEAN :
          Returned(sync_playlist(ipodDB, syncArgs.name, syncArgs.tracks, strict))
    /\ UNCHANGED <<syncArgs, ruleVars, playlistVars, runVars, envVars>>

NextIpod == SyncPlaylist

SpecIpod == InitIpod /\ [][NextIpod]_vars

-----------------------------------------------------------------------------
(* Properties of a single rule (SpecRule) *)

\* what a comparison operator of the rule language means
Standard(op, a, b) ==
    CASE op = <<"=">>      -> a = b
      [] op = <<"<">>      -> a < b
      [] op = <<">">>      -> a > b
      [] op = <<"<","=">>  -> a <= b
      [] op = <<">","=">>  -> a >= b

Parsed == rpc # "parse" /\ RuleSplits(ruleString) # {}
Groups == RuleGroups(ruleString)
Attr == GetAttr(track, Lower(rule.val.key))

\* the rule text with the n flag taken out of its flags
WithoutN(s) ==
    LET d == RuleGroups(s)
        e == Len(d.key) + Len(d.operator) + Len(d.value) + 2
    IN  SubSeq(s, 1, e) \o SelectSeq(d.flags, LAMBDA c : c # "n")
          \o SubSeq(s, e + Len(d.flags) + 1, Len(s))

\* C2: for every rule kind a rule written with the n flag can be constructed
\* whenever the same rule without n can, and on every track the bare rule
\* matches without error its result is the negation of the bare rule's.
C2_NegateEveryKind ==
    (Parsed /\ "n" \in Range(Groups.flags)) =>
        LET plain == GetRule(WithoutN(ruleString), now, tz)
            base == Match(plain.val, track, tz)
        IN  plain.ok =>
              /\ rule.ok
              /\ base.ok => (rpc = "done" => matched = Ok(~base.val))

\* C3: a NumberRule with operator op and number n matches a track whose
\* attribute is the number v (empty counting as 0) exactly when v op n holds
\* in the standard meaning of op.
C3_NumberStandardOps ==
    (/\ rpc = "done" /\ rule.ok /\ rule.val.cls = "NumberRule"
     /\ rule.val.operator \in CompareOps /\ ~rule.val.negate
     /\ (Attr = <<>> \/ Float(Attr).ok))
    => matched = Ok(Standard(rule.val.operator,
                             IF Attr = <<>> THEN 0 ELSE ParseDigits(Attr),
                             ParseDigits(rule.val.value)))

\* the operators each kind supports, by delimiter
SupportedOps(d) == IF d = "/" THEN { <<"=">>, <<"!">> } ELSE CompareOps

\* a value that is not in the domain of its kind
Malformed(d, value) ==
    CASE d = "/" -> ~PatternCompiles(value)
      [] d = "#" -> ~Float(value).ok
      [] d = "@" -> ~StrptimeDate(value).ok
      [] d = "%" ->
            LET m == TimeDeltaRegex(value)
                u == Lower(m[1].unit)
            IN  \/ m = <<>>
                \/ ~Timedelta(IF u[Len(u)] = "s" THEN u ELSE u \o <<"s">>, 1).ok

\* C7: a rule whose operator its kind does not support, or whose value is
\* malformed for its kind, is rejected with CustomException when it is
\* constructed.
C7_RejectedAtConstruction ==
    (/\ Parsed
     /\ \/ Groups.operator \notin SupportedOps(Groups.delimiter)
        \/ Malformed(Groups.delimiter, Groups.value))
    => rule = Raise("CustomException")

\* C8: a TimeDeltaRule with operator op and duration d matches a track of
\* instant t exactly when (now - t) op d, whether the track stores t as an
\* ISO-8601 UTC string or as epoch seconds.
C8_TimeDeltaAge ==
    (/\ rpc = "done" /\ rule.ok /\ rule.val.cls = "TimeDeltaRule"
     /\ rule.val.operator \in CompareOps /\ ~rule.val.negate)
    => \A t \in Instants :
          track.mtime \in { FormatIso(t), FormatEpoch(t) } =>
              matched = Ok(Standard(rule.val.operator, now - t, rule.val.delta.s))

\* C9: a TimeStampRule with operator op and date D matches a track whose
\* timestamp is t epoch seconds exactly when (UTC day of t) op D.
C9_TimeStampByUtcDay ==
    (/\ rpc = "done" /\ rule.ok /\ rule.val.cls = "TimeStampRule"
     /\ rule.val.operator \in CompareOps /\ ~rule.val.negate)
    => \A t \in Instants : \A day \in 0..(MaxDays + 1) :
          (/\ track.mtime = FormatEpoch(t)
           /\ rule.val.value = StrftimeDate(CivilFromDays(Day0 \div SecondsPerDay + day)))
          => matched = Ok(Standard(rule.val.operator, t \div SecondsPerDay,
                                   Day0 \div SecondsPerDay + day))

\* `<@2010-01-02@` has matched the last second of 2010-01-01 (UTC), east of
\* Greenwich
C9_Witness ==
    /\ rpc = "done"
    /\ ruleString = RuleText(<<"m","t">>, <<"<">>, "@",
                             <<"2","0","1","0","-","0","1","-","0","2">>, <<>>)
    /\ track.mtime = FormatEpoch(Day0 + SecondsPerDay - 1)
    /\ tz = 3600
    /\ matched = Ok(TRUE)

\* s is, from its first character to its last, a key, an operator, a
\* delimiter, a value without that delimiter, the same delimiter and flags
WholeRule(s) ==
    \E x \in RuleSplits(s) :
        /\ s[x[1] + x[2] + 1] \notin Range(GroupDict(s, x).value)
        /\ x[1] + x[2] + x[3] + 2 + Len(GroupDict(s, x).flags) = Len(s)

\* C12: getRule produces a rule only from a string that is key, operator,
\* delimiter, value, the same delimiter and optional flags from end to end;
\* a missing or mismatched closing delimiter, a value holding its delimiter
\* or text after the flags is rejected with the rule-syntax CustomException.
C12_WholeStringOnly ==
    (rpc # "parse" /\ ~WholeRule(ruleString)) => rule = Raise("CustomException")

\* the keyword entries a key names, by short code or by attribute name, in
\* any letter case
EntriesOf(key) ==
    { i \in DOMAIN KEYWORDS :
        Lower(key) \in { Lower(KEYWORDS[i].code), Lower(KEYWORDS[i].name) } }

\* the rule text s with the key k in place of its own
Rekeyed(s, k) == k \o SubSeq(s, Len(RuleGroups(s).key) + 1, Len(s))

\* the rule, and its outcome on the track, are those of the rule ref keyed
\* by the short code of the entry e, and the rule reads the attribute of e
SameAsByCode(e, ref) ==
    /\ rule.ok = ref.ok
    /\ ~rule.ok => rule = ref
    /\ rule.ok => /\ Lower(rule.val.key) = Lower(e.name)
                  /\ Lower(ref.val.key) = Lower(e.name)
                  /\ rpc = "done" => matched = Match(ref.val, track, tz)

\* C13: a rule keyed by the short code of a keyword entry and a rule keyed by
\* its attribute name, in any letter case, read the same track attribute and
\* have the same outcome on every track; a key that names no keyword entry
\* makes the construction fail with CustomException.
C13_KeyByCodeOrName ==
    Parsed =>
        IF EntriesOf(Groups.key) = {}
        THEN rule = Raise("CustomException")
        ELSE \A i \in EntriesOf(Groups.key) :
                SameAsByCode(KEYWORDS[i],
                             GetRule(Rekeyed(ruleString, KEYWORDS[i].code), now, tz))

\* a rule keyed ARTIST has matched a track by its artist
C13_Witness ==
    /\ rpc = "done"
    /\ ruleString = RuleText(<<"A","R","T","I","S","T">>, <<"=">>, "/",
                             <<"F","r","e">>, <<>>)
    /\ track.artist = <<"F","r","e","d">>
    /\ matched = Ok(TRUE)

-----------------------------------------------------------------------------
(* Properties of playlist evaluation (SpecPlaylist) *)

Evaluation == ppc = "done"
TrackSet(f) == Range(f.val.tracks)

\* C1: the ruleset made of the rules of R1 followed by those of R2 selects
\* exactly the tracks both R1 alone and R2 alone select, and the same in
\* the other order of the rules.
C1_AndIsIntersection ==
    (Evaluation /\ playlists.r1.ok /\ playlists.r2.ok) =>
        /\ found.r21 = found.r12
        /\ found.r12.ok =>
             /\ found.r1.ok /\ found.r2.ok
             /\ TrackSet(found.r12) = TrackSet(found.r1) \cap TrackSet(found.r2)

\* C4: a playlist of the empty ruleset text is built without error, and its
\* evaluation selects every track of the database.
C4_EmptyRulesetSelectsAll ==
    (Evaluation /\ ruleset1 = <<>>) =>
        /\ playlists.r1.ok
        /\ found.r1.ok
        /\ TrackSet(found.r1) = Range(db)

\* a time rule cannot interpret the track's attribute
Unreadable(r, t) ==
    LET attr == GetAttr(t, Lower(r.key))
    IN  \/ /\ r.cls = "TimeDeltaRule"
           /\ attr # <<>> /\ ~StrptimeIso(attr).ok /\ ~Float(attr).ok
        \/ /\ r.cls = "TimeStampRule"
           /\ ~Float(attr).ok

\* C6: a track whose attribute a time rule of the playlist cannot interpret
\* is left out of the playlist, and the evaluation completes without error.
C6_UnreadableTrackExcluded ==
    \A n \in PlaylistNames :
        (Evaluation /\ playlists[n].ok) =>
            /\ found[n].ok
            /\ \A i \in DOMAIN db :
                 (\E k \in DOMAIN playlists[n].val :
                      Unreadable(playlists[n].val[k], db[i]))
                 => db[i] \notin TrackSet(found[n])

\* a <= b in the case-sensitive lexicographic order of strings
LexLeq(a, b) ==
    \/ /\ Len(a) <= Len(b)
       /\ \A i \in DOMAIN a : a[i] = b[i]
    \/ \E i \in DOMAIN a \cap DOMAIN b :
          /\ \A j \in 1..(i - 1) : a[j] = b[j]
          /\ Ord(a[i]) < Ord(b[i])
SortKey(t) == t.artist \o t.album \o t.title
Position(t) == CHOOSE i \in DOMAIN db : db[i] = t

\* C10: the tracks of an evaluated playlist are in non-decreasing order of
\* artist+album+title, and tracks with equal strings are in the order the
\* database iterates them.
C10_SortedAndStable ==
    \A n \in PlaylistNames :
        (Evaluation /\ found[n].ok) =>
            LET r == found[n].val.tracks
            IN  \A i, j \in DOMAIN r :
                  i < j =>
                    /\ LexLeq(SortKey(r[i]), SortKey(r[j]))
                    /\ SortKey(r[i]) = SortKey(r[j])
                         => Position(r[i]) < Position(r[j])

\* an evaluated playlist of three tracks, two of them with equal strings,
\* that the database iterates in another order than the sorted one
C10_Witness ==
    /\ Evaluation
    /\ found.r1.ok
    /\ Len(found.r1.val.tracks) = 3
    /\ found.r1.val.tracks # db
    /\ \E i, j \in DOMAIN db :
          i < j /\ SortKey(db[i]) = SortKey(db[j])

\* C11: two tracks of an evaluated playlist that have the same artist are in
\* the order of their albums: the one whose album is lexicographically smaller
\* comes first, whatever the titles.
C11_AlbumBeforeTitle ==
    \A n \in PlaylistNames :
        (Evaluation /\ found[n].ok) =>
            LET r == found[n].val.tracks
            IN  \A i, j \in DOMAIN r :
                  ( /\ r[i].artist = r[j].artist
                    /\ r[i].album # r[j].album
                    /\ LexLeq(r[i].album, r[j].album) ) => i < j

-----------------------------------------------------------------------------
(* Properties of a run (SpecRun) *)

\* the cache file is missing, or older than the sources
Stale == ~cacheFile.exists \/ cacheFile.obj.version < source

\* C5: a run rebuilds the track database from its sources, and saves it,
\* whenever no cache exists, a source is newer than the cache or a refresh
\* is forced; it loads the cache otherwise.
C5_RebuildWhenStale ==
    [][ mpc = "db" =>
          /\ mpc' = "marshal"
          /\ IF Stale \/ args.forceUpdate
             THEN /\ mpdDB' = MpdDBInit(source)
                  /\ cacheFile' = [exists |-> TRUE, obj |-> mpdDB']
             ELSE /\ mpdDB' = cacheFile.obj
                  /\ cacheFile' = cacheFile ]_vars

\* the rules with every TimeDeltaRule reading the clock in this run
AtTimeOfRun(rules) ==
    [ i \in DOMAIN rules |->
        IF rules[i].cls = "TimeDeltaRule"
        THEN [rules[i] EXCEPT !.now = DatetimeNow(now, tz)]
        ELSE rules[i] ]

\* the playlist p holds the tracks sel selected
Holds(p, sel) == sel.ok /\ p.tracks = sel.val.tracks

\* C14: a run that ends normally leaves in every playlist it evaluated, those
\* reloaded from the data directory included, the tracks its rules select
\* when every TimeDeltaRule takes the age of a track at the time of this run.
C14_AgeAtLaterRun ==
    (mpc = "exited" /\ exit = "0") =>
        \A name \in DOMAIN playlistSet :
            Holds(playlistSet[name],
                  FindMatchingTracks(AtTimeOfRun(playlistSet[name].rules),
                                     mpdDB.tracks, tz))

\* the run is past parseArgs and short of the evaluation loop, it writes
\* the playlists to files, and a playlist of its command line has the name
\* of a playlist saved in the data directory
NameTaken ==
    /\ mpc \in {"db", "marshal"}
    /\ args.dataDir
    /\ DOMAIN playlistSet \cap DOMAIN dataDir.files # {}

\* C15: a run that writes files and defines with -n a playlist whose name a
\* saved playlist has ends with the CustomException "Cowardly refusing"
\* (exit status 2) before it evaluates a playlist, and leaves the .m3u files
\* and the saved playlists as they were.
C15_CowardlyRefusing ==
    [][ NameTaken =>
          /\ dataDir' = dataDir
          /\ playlistDir' = playlistDir
          /\ \/ mpc = "db" /\ mpc' = "marshal"
             \/ mpc' = "exited" /\ exit' = "2" ]_vars

-----------------------------------------------------------------------------
(* Properties of iPod.sync_playlist (SpecIpod) *)

\* the list m holds the tracks of the list t, in their order
SameTracks(m, t) ==
    /\ Len(m) = Len(t)
    /\ \A i \in DOMAIN m : compare_tracks(m[i], t[i])

\* C16: on a device that has a playlist of that name, sync_playlist returns
\* normally and leaves in the playlist the given tracks in the given order,
\* whatever the playlist held and whatever the list of tracks is.
C16_PlaylistIsTracks ==
    [][ (syncResult = NotYet /\ Named(ipodDB, syncArgs.name) # {}) =>
          /\ syncResult' = Ok(TRUE)
          /\ SameTracks(ipodDB'.playlists[Min(Named(ipodDB, syncArgs.name))].members,
                        syncArgs.tracks) ]_vars

=============================================================================
